---- MODULE Spec2Model ----
(***************************************************************************)
(* A model of the Shodan browser-automation service:                       *)
(*   src/shodanBrowser.js   Mutex and ShodanBrowser (launch, login,        *)
(*                          search, close)                                 *)
(*   src/unnamed/part_001   the HTTP facade (POST /search, GET /health,    *)
(*                          startup, shutdown) that requires               *)
(*                          ./shodanBrowser                                *)
(*   src/server.js          the standalone service: the same Mutex, its    *)
(*                          own ensureLoggedIn, runSearch, routes,         *)
(*                          startup and shutdown                           *)
(*                                                                         *)
(* JavaScript strings are sequences of one-character strings, JavaScript   *)
(* values are records tagged by t.  Every await of the source is a state   *)
(* of the awaiting invocation: pc[t] names the operation in flight, and    *)
(* the action that completes it runs the continuation up to the next       *)
(* await.                                                                  *)
(***************************************************************************)
EXTENDS Integers, Sequences, FiniteSets, TLC

\* ------------------------------------------------------------------ bounds
\* concurrent HTTP requests / direct search() callers
NumRequests == 2
\* largest page count a caller asks for
MaxPages == 3

\* --------------------------------------------------------- JavaScript values
Undef == [t |-> "undefined"]
Null == [t |-> "null"]
NaN == [t |-> "nan"]
\* the number n/d, d a power of ten
Num(n, d) == [t |-> "num", n |-> n, d |-> d]
Whole(n) == Num(n, 1)
Str(s) == [t |-> "str", s |-> s]

IsNum(v) == v.t = "num"
IsInteger(v) == v.t = "num" /\ v.n % v.d = 0

\* v is falsy: the left operand of || is skipped
Falsy(v) ==
  \/ v.t \in {"undefined", "null", "nan"}
  \/ v.t = "num" /\ v.n = 0
  \/ v.t = "str" /\ v.s = <<>>

\* a || b
OrElse(a, b) == IF Falsy(a) THEN b ELSE a

\* a ?? b
Nullish(a, b) == IF a.t \in {"undefined", "null"} THEN b ELSE a

WhiteSpace == {" "}

RECURSIVE TrimLeft(_)
TrimLeft(s) ==
  IF s # <<>> /\ Head(s) \in WhiteSpace THEN TrimLeft(Tail(s)) ELSE s

RECURSIVE TrimRight(_)
TrimRight(s) ==
  IF s # <<>> /\ s[Len(s)] \in WhiteSpace
  THEN TrimRight(SubSeq(s, 1, Len(s) - 1))
  ELSE s

\* String.prototype.trim
Trim(s) == TrimRight(TrimLeft(s))

DigitChars == <<"0", "1", "2", "3", "4", "5", "6", "7", "8", "9">>
IsDigit(c) == \E i \in 1..10 : DigitChars[i] = c
DigitVal(c) == (CHOOSE i \in 1..10 : DigitChars[i] = c) - 1

RECURSIVE ParseNat(_)
ParseNat(s) ==
  IF s = <<>> THEN 0
  ELSE 10 * ParseNat(SubSeq(s, 1, Len(s) - 1)) + DigitVal(s[Len(s)])

RECURSIVE Pow10(_)
Pow10(k) == IF k = 0 THEN 1 ELSE 10 * Pow10(k - 1)

RECURSIVE Reduce(_, _)
Reduce(n, d) ==
  IF d > 1 /\ n % 10 = 0 THEN Reduce(n \div 10, d \div 10) ELSE Num(n, d)

\* the StringNumericLiteral grammar, decimal part: [+-] digits [. digits]
StrToNumber(s0) ==
  LET s == Trim(s0)
      signed == s # <<>> /\ Head(s) \in {"-", "+"}
      sign == IF s # <<>> /\ Head(s) = "-" THEN -1 ELSE 1
      body == IF signed THEN Tail(s) ELSE s
      dots == {i \in 1..Len(body) : body[i] = "."}
      dot == IF dots = {} THEN Len(body) + 1 ELSE CHOOSE i \in dots : TRUE
      ip == SubSeq(body, 1, dot - 1)
      fp == SubSeq(body, dot + 1, Len(body))
      wellFormed ==
        /\ Cardinality(dots) <= 1
        /\ \A i \in 1..Len(ip) : IsDigit(ip[i])
        /\ \A i \in 1..Len(fp) : IsDigit(fp[i])
        /\ Len(ip) + Len(fp) >= 1
  IN  IF s = <<>> THEN Whole(0)
      ELSE IF ~wellFormed THEN NaN
      ELSE Reduce(sign * (ParseNat(ip) * Pow10(Len(fp)) + ParseNat(fp)),
                  Pow10(Len(fp)))

\* Number(v)
ToNumber(v) ==
  CASE v.t = "undefined" -> NaN
    [] v.t = "null" -> Whole(0)
    [] v.t = "str" -> StrToNumber(v.s)
    [] OTHER -> v

\* a < b on numbers; false when either is NaN
NumLess(a, b) == IsNum(a) /\ IsNum(b) /\ a.n * b.d < b.n * a.d
NumLeq(a, b) == IsNum(a) /\ IsNum(b) /\ a.n * b.d <= b.n * a.d

\* Math.max(a, b): NaN when either argument is NaN
MathMax(a, b) ==
  IF ~IsNum(a) \/ ~IsNum(b) THEN NaN
  ELSE IF NumLess(a, b) THEN b ELSE a

Truthy(v) == ~Falsy(v)

\* ------------------------------------------------------------ page counts
\* part_001 line 20: Math.max(1, Number(req.body?.pages || req.query?.pages || 2))
FacadePages(bodyPages, queryPages) ==
  MathMax(Whole(1), ToNumber(OrElse(OrElse(bodyPages, queryPages), Whole(2))))

\* shodanBrowser.js line 90: Math.max(1, Number(opts.pages ?? 2))
PagesToFetch(optsPages) ==
  MathMax(Whole(1), ToNumber(Nullish(optsPages, Whole(2))))

\* the query is passed on as it was sent
FacadeQueryAsSent(bodyQuery, queryQ) == OrElse(OrElse(bodyQuery, queryQ), Str(<<>>)).s

\* part_001 line 17, server.js line 143:
\* (req.body?.query || req.query?.q || '').toString().trim()
FacadeQuery(bodyQuery, queryQ) ==
  Trim(OrElse(OrElse(bodyQuery, queryQ), Str(<<>>)).s)

\* ------------------------------------------------------------------- URLs
Url(host, path, query, pg) ==
  [host |-> host, path |-> path, query |-> query, page |-> pg]
BLANK_URL == Url("about:blank", "", <<>>, 0)
LOGIN_URL == Url("account.shodan.io", "/login", <<>>, 0)
ACCOUNT_URL == Url("account.shodan.io", "/", <<>>, 0)
ADV_URL == Url("www.shodan.io", "/search/advanced", <<>>, 0)
\* where the advanced-search form lands: /search?query=...
ResultsUrl(q) == Url("www.shodan.io", "/search", q, 0)
\* the URL is left as it was
KeepPageParam(u, p) == u

\* url.searchParams.set('page', String(p))
SetPageParam(u, p) == [u EXCEPT !.page = p]

\* the wait is over on any URL
AnyUrl(u) == TRUE

\* /account\.shodan\.io\/login/.test(url)
OnLoginPath(u) == u.host = "account.shodan.io" /\ u.path = "/login"
\* location.hostname.endsWith('shodan.io')
OnShodan(u) == u.host \in {"account.shodan.io", "www.shodan.io"}
\* the predicate page.waitForFunction polls
ChallengeCleared(u) == OnShodan(u) /\ ~OnLoginPath(u)

\* ------------------------------------------------------- result extraction
\* a DOM element: Null when the selector matches nothing
El(text, href) == [t |-> "el", text |-> text, href |-> href]

\* const getText = el => (el ? el.textContent.trim() : null)
getText(el) == IF el = Null THEN Null ELSE Str(Trim(el.text))

RECURSIVE MapTrim(_)
MapTrim(els) ==
  IF els = <<>> THEN <<>>
  ELSE <<Str(Trim(Head(els).text))>> \o MapTrim(Tail(els))

CardClasses == {"result", "search-result", "banner"}

\* $$('.result').length ? $$('.result') : $$('.search-result, .banner')
SelectCards(dom) ==
  LET IsResult(c) == c.cls = "result"
      IsLegacy(c) == c.cls \in {"search-result", "banner"}
  IN  IF SelectSeq(dom, IsResult) # <<>>
      THEN SelectSeq(dom, IsResult)
      ELSE SelectSeq(dom, IsLegacy)

\* the record built from one card by cards.map(...)
CardRecord(card) ==
  LET titleA == IF card.title # Null THEN card.title ELSE card.anchor
  IN  [title |-> getText(titleA),
       title_url |-> IF titleA # Null THEN Str(titleA.href) ELSE Null,
       timestamp |-> getText(card.time),
       hostnames |-> IF card.hostnames # <<>> THEN MapTrim(card.hostnames) ELSE Null,
       tags |-> IF card.tags # <<>> THEN MapTrim(card.tags) ELSE Null,
       banner |-> IF card.pre # Null THEN Str(Trim(card.pre.text)) ELSE Null]

\* a filter that looks at the title alone
KeepTitleOnly(r) == Truthy(r.title)

\* .filter(r => r.title || r.banner)
KeepRecord(r) == Truthy(r.title) \/ Truthy(r.banner)

RECURSIVE MapCards(_)
MapCards(cards) ==
  IF cards = <<>> THEN <<>>
  ELSE <<CardRecord(Head(cards))>> \o MapCards(Tail(cards))

\* what page.evaluate returns in scrapeCurrent
Scrape(dom) == SelectSeq(MapCards(SelectCards(dom)), KeepRecord)

\* page.waitForSelector('div.result, .search-result, .banner') finds a match
HasCards(dom) == \E i \in 1..Len(dom) : dom[i].cls \in CardClasses

RECURSIVE Flat(_)
\* byPage.flat()
Flat(lists) == IF lists = <<>> THEN <<>> ELSE Head(lists) \o Flat(Tail(lists))

\* byPage.map(a => a.length)
Counts(lists) == [k \in 1..Len(lists) |-> Len(lists[k])]

\* ----------------------------------------------------------------- inputs
Q == <<"q">>
\* the cards a results page may hold
GoodCard ==
  [cls |-> "result", title |-> El(<<"a", " ">>, <<"u">>), anchor |-> El(<<"a", " ">>, <<"u">>),
   time |-> El(<<"t">>, <<>>), hostnames |-> <<El(<<" ", "h">>, <<>>)>>,
   tags |-> <<El(<<"g">>, <<>>)>>, pre |-> El(<<" ", "b">>, <<>>)]
NoiseCard ==
  [cls |-> "result", title |-> Null, anchor |-> Null, time |-> El(<<"t">>, <<>>),
   hostnames |-> <<>>, tags |-> <<>>, pre |-> Null]
BlankCard ==
  [cls |-> "result", title |-> El(<<" ">>, <<"u">>), anchor |-> El(<<" ">>, <<"u">>),
   time |-> Null, hostnames |-> <<>>, tags |-> <<>>, pre |-> El(<<" ", " ">>, <<>>)]
LinkCard ==
  [cls |-> "result", title |-> Null, anchor |-> El(<<"a">>, <<"v">>), time |-> Null,
   hostnames |-> <<>>, tags |-> <<>>, pre |-> Null]
BannerCard ==
  [cls |-> "result", title |-> Null, anchor |-> Null, time |-> Null,
   hostnames |-> <<>>, tags |-> <<>>, pre |-> El(<<"b", " ">>, <<>>)]
LegacyCard == [GoodCard EXCEPT !.cls = "search-result"]
LegacyNoise == [NoiseCard EXCEPT !.cls = "banner"]

\* two well-formed cards and one with neither title nor banner
FixturePage == <<GoodCard, GoodCard, NoiseCard>>
\* the page contents the site serves in the concurrency specifications
FewPages == {FixturePage, <<NoiseCard>>}
\* the page contents the site serves in the data specification
ManyPages ==
  {FixturePage, <<NoiseCard>>, <<>>, <<BlankCard, BannerCard>>, <<LinkCard>>,
   <<LegacyCard, LegacyNoise>>, <<LegacyCard, BannerCard>>}

\* the values a caller may send as `pages`
RawPages ==
  {Undef, Null, Str(<<>>), Str(<<"a">>), Str(<<"2">>), Str(<<" ", "1">>),
   Str(<<"1", ".", "5">>), Num(5, 10), Num(15, 10)}
    \cup {Whole(n) : n \in -1..MaxPages}
\* the values a caller may send as the query
RawQueries == {Undef, Str(<<>>), Str(<<" ">>), Str(<<" ", "q">>), Str(Q)}

\* ---------------------------------------------------------------- state
Startup == 0
Requests == 1..NumRequests
\* a user of the exported object that calls launch() itself
Launcher == NumRequests + 1
\* the startup code of server.js (lines 155-188)
ServerStartup == NumRequests + 2
Threads == 0..(NumRequests + 2)

VARIABLES
  pc,           \* per invocation: the operation it awaits, or how it ended
  frame,        \* per invocation: its local variables (asked, served, authEntry and
                \* authNavs are history: the `pages` sent, the contents scraped, the
                \* URL _ensureLoggedIn began on and the navigations it issued)
  target,       \* per invocation: the process or page its operation was issued on
  browser,      \* this.browser: 0 is null, else an index of procs
  page,         \* this.page: 0 is null, else an index of tabs
  procs,        \* the browser processes started so far: "live" or "closed"
  tabs,         \* the pages created so far
  mutexP,       \* Mutex.p: 0 is the constructor's promise, t the link made by run for t
  pred,         \* per task: the promise its then-callback is chained on
  next,         \* per task: the promise run returned
  lastResponse, \* the last answer handed to a caller
  listening,    \* app.listen was called
  exited,       \* process.exit was called
  closer,       \* the close() invocation
  submitOrder,  \* history: tasks in the order run was called
  startOrder,   \* history: tasks in the order their bodies began
  finishOrder,  \* history: tasks in the order their promises settled
  opLog         \* history: which search issued operations, runs of one search merged

ctl == <<pc, frame, target, next, lastResponse, listening, finishOrder, opLog>>
sess == <<browser, page, procs, tabs>>
mutex == <<mutexP, pred, submitOrder>>
vars == <<ctl, sess, mutex, startOrder, exited, closer>>

NoFrame ==
  [ctx |-> "none", caller |-> "none", asked |-> Null, query |-> <<>>, pagesToFetch |-> Null,
   byPage |-> <<>>, p |-> 0, url |-> Null, served |-> <<>>,
   authEntry |-> Null, authNavs |-> 0]
Pending == [st |-> "pending", by |-> 0]
NoResponse ==
  [req |-> 0, from |-> 0, status |-> 0, body |-> Null, asked |-> Null, served |-> <<>>]
IdleCloser == [pc |-> "idle", target |-> 0, exit |-> FALSE]

Init ==
  /\ pc = [t \in Threads |-> "idle"]
  /\ frame = [t \in Threads |-> NoFrame]
  /\ target = [t \in Threads |-> 0]
  /\ browser = 0
  /\ page = 0
  /\ procs = <<>>
  /\ tabs = <<>>
  /\ mutexP = 0
  /\ pred = [t \in Requests |-> 0]
  /\ next = [t \in Requests |-> Pending]
  /\ lastResponse = NoResponse
  /\ listening = FALSE
  /\ exited = FALSE
  /\ closer = IdleCloser
  /\ submitOrder = <<>>
  /\ startOrder = <<>>
  /\ finishOrder = <<>>
  /\ opLog = <<>>

\* the labels at which the operation in flight is an operation on a page
AuthOps ==
  {"a_goto", "a_form", "a_user", "a_pass", "a_focus", "a_enter", "a_nav", "a_challenge"}
SearchOps == {"s_goto", "s_input", "s_clear", "s_type", "s_submit", "s_cards", "s_eval", "s_gotoPage"}
PageOps == AuthOps \cup SearchOps
Executing == {"l_launch", "l_newPage"} \cup PageOps

\* an error thrown in invocation t: a TypeError of the code, or a failed operation
Err(kind, t) == [t |-> "error", kind |-> kind, by |-> t]

\* a page accepts operations: it is open and its browser runs
TabLive(k) == k # 0 /\ tabs[k].open /\ procs[tabs[k].owner] = "live"

\* ------------------------------------------------------- control transfer
Logged(log, t) == IF log # <<>> /\ log[Len(log)] = t THEN log ELSE Append(log, t)

\* invocation t issues an operation on tgt and awaits it at `label`
Go(t, label, tgt, fr) ==
  /\ pc' = [pc EXCEPT ![t] = label]
  /\ frame' = [frame EXCEPT ![t] = fr]
  /\ target' = [target EXCEPT ![t] = tgt]
  /\ opLog' = IF t \in Requests THEN Logged(opLog, t) ELSE opLog
  /\ UNCHANGED <<next, lastResponse, listening, finishOrder>>

\* what the caller of search() is handed: the facade answers 200 with the result or
\* 500 with the error (part_001 lines 21-26, server.js lines 146-151); a direct caller
\* gets the promise's outcome
Answer(t, st, by, value, srv) ==
  IF frame[t].caller \in {"http", "server"}
  THEN [req |-> t, from |-> by, status |-> IF st = "fulfilled" THEN 200 ELSE 500,
        body |-> IF st = "fulfilled" THEN value
                 ELSE [error |-> "Search failed", detail |-> value],
        asked |-> frame[t].asked, served |-> srv]
  ELSE [req |-> t, from |-> by, status |-> IF st = "fulfilled" THEN 1 ELSE -1,
        body |-> value, asked |-> frame[t].asked, served |-> srv]

\* the startup code goes on to app.listen: part_001 catches whatever launch() threw
\* (line 31); server.js catches what ensureLoggedIn threw (lines 167-172) and leaves
\* a rejection of puppeteer.launch or newPage (lines 157-165) unhandled
Listens(t) == t = Startup \/ (t = ServerStartup /\ pc[t] \in AuthOps)

\* invocation t ends: its promise settles with value, the outcome of invocation `by`
EndWith(t, st, by, value, srv) ==
  /\ pc' = [pc EXCEPT ![t] = IF st = "fulfilled" THEN "resolved" ELSE "rejected"]
  /\ frame' = [frame EXCEPT ![t] = NoFrame]
  /\ target' = [target EXCEPT ![t] = 0]
  /\ UNCHANGED opLog
  /\ IF t \in Requests
     THEN /\ next' = [next EXCEPT ![t] = [st |-> st, by |-> by]]
          /\ finishOrder' = Append(finishOrder, t)
          /\ lastResponse' = Answer(t, st, by, value, srv)
          /\ UNCHANGED listening
     ELSE /\ listening' = (listening \/ Listens(t))
          /\ UNCHANGED <<next, finishOrder, lastResponse>>

End(t, st, value) == EndWith(t, st, t, value, <<>>)

\* the search resolves with the pages extracted before the failure
ThrowPartial(t) ==
  EndWith(t, "fulfilled", t,
          [query |-> frame[t].query, pages |-> frame[t].pagesToFetch,
           counts |-> Counts(frame[t].byPage), count |-> Len(Flat(frame[t].byPage)),
           results |-> Flat(frame[t].byPage)], frame[t].served)

\* an awaited operation rejects and nothing catches it
Throw(t) == EndWith(t, "rejected", t, Err("failed", t), frame[t].served)

\* ------------------------------------------------------------------ Mutex
\* the link of a rejected task never settles
ChainLinkStalls(n) == IF n.st = "fulfilled" THEN n ELSE [st |-> "pending", by |-> n.by]

\* this.p = next: the link rejects when the task rejects
ChainLinkNoCatch(n) == n

\* next.catch(() => {}): pending while next is, fulfilled once next settles
ChainLink(n) == IF n.st = "pending" THEN n ELSE [st |-> "fulfilled", by |-> n.by]

\* then() runs its callback without waiting for the promise
PromiseOfNoWait(u) == [st |-> "fulfilled", by |-> 0]

\* the promise a then-callback was chained on
PromiseOf(u) == IF u = 0 THEN [st |-> "fulfilled", by |-> 0] ELSE ChainLink(next[u])

\* this.p is left as it was
StaleTail(t) == mutexP

\* this.p after run(task t)
NewTail(t) == t

\* run(task): chain the task on this.p and make its settled link the new this.p
Submit(t, q, raw, ptf, who) ==
  /\ pred' = [pred EXCEPT ![t] = mutexP]
  /\ mutexP' = NewTail(t)
  /\ submitOrder' = Append(submitOrder, t)
  /\ pc' = [pc EXCEPT ![t] = "queued"]
  /\ frame' = [frame EXCEPT ![t] =
       [NoFrame EXCEPT !.caller = who, !.asked = raw, !.query = q, !.pagesToFetch = ptf]]
  /\ UNCHANGED <<target, next, lastResponse, listening, finishOrder, opLog>>
  /\ UNCHANGED <<sess, startOrder, exited, closer>>

\* request ids are handed out in order
Fresh(t) == pc[t] = "idle" /\ \A u \in Requests : u < t => pc[u] # "idle"

\* shodan.search(query, opts) called directly
SearchCall(t, q, optsPages) ==
  /\ ~exited
  /\ Fresh(t)
  /\ Submit(t, q, optsPages, PagesToFetch(optsPages), "api")

\* requests reach the routes whether or not app.listen was called
AcceptingAlways == TRUE

\* the routes are served once app.listen was called
Accepting == listening

\* return res.status(400).json({ error: 'Missing "query" in JSON body or ?q=' });
\* sent is history: the query values of the request
Refuse(t, body, qs) ==
  /\ pc' = [pc EXCEPT ![t] = "refused"]
  /\ lastResponse' = [req |-> t, from |-> t, status |-> 400,
                      body |-> [error |-> "Missing \"query\" in JSON body or ?q="],
                      asked |-> body.pages, served |-> <<>>,
                      sent |-> <<body.query, qs.q>>]
  /\ UNCHANGED <<frame, target, next, listening, finishOrder, opLog>>
  /\ UNCHANGED <<sess, mutex, startOrder, exited, closer>>

\* POST /search of part_001
PostSearch(t, body, qs) ==
  /\ ~exited
  /\ Accepting
  /\ Fresh(t)
  /\ LET q == FacadeQuery(body.query, qs.q)
         pages == FacadePages(body.pages, qs.pages)
     IN  IF q = <<>>
         THEN Refuse(t, body, qs)
         ELSE Submit(t, q, body.pages, PagesToFetch(pages), "http")

\* POST /search of server.js: runSearch(query) takes no page count
ServerPostSearch(t, body, qs) ==
  /\ ~exited
  /\ Accepting
  /\ Fresh(t)
  /\ LET q == FacadeQuery(body.query, qs.q)
     IN  IF q = <<>>
         THEN Refuse(t, body, qs)
         ELSE Submit(t, q, Null, Null, "server")

\* new Date().toISOString(): a string; the clock is not modelled
ISOString == Str(<<"t", "s">>)

\* a route that awaits nothing answers
Reply(value) ==
  /\ lastResponse' = [req |-> 0, from |-> 0, status |-> 200, body |-> value,
                      asked |-> Null, served |-> <<>>]
  /\ UNCHANGED <<pc, frame, target, next, listening, finishOrder, opLog>>
  /\ UNCHANGED <<sess, mutex, startOrder, exited, closer>>

\* GET /health of part_001
Health ==
  /\ ~exited
  /\ Accepting
  /\ Reply([ok |-> TRUE, ts |-> ISOString])

\* GET /health of server.js
ServerHealth ==
  /\ ~exited
  /\ Accepting
  /\ Reply([ok |-> TRUE, loggedIn |-> (page # 0), ts |-> ISOString])

\* --------------------------------------------------------------- launch()
\* the guard is dropped
LaunchAlways == FALSE

\* if (this.browser) return;
LaunchIsNoop == browser # 0

\* the navigation to the login page is skipped
SkipAuth(t, who, k, ts) ==
  Go(t, "s_goto", k, [frame[t] EXCEPT !.ctx = who, !.authEntry = Null, !.authNavs = 0])

\* _ensureLoggedIn() begins on page k: page.goto(LOGIN_URL) is issued at once
EnterAuth(t, who, k, ts) ==
  Go(t, "a_goto", k,
     [frame[t] EXCEPT !.ctx = who, !.authEntry = ts[k].url, !.authNavs = 1])

\* /shodan\.io/.test(url): every URL the page is on is about:blank or has the host
\* of a site page, so the test comes down to the host
MentionsShodan(u) == u.host \in {"account.shodan.io", "www.shodan.io"}

\* ensureLoggedIn() of server.js begins on page k: it returns at once when the page
\* is on the site and not on the login path (lines 52-55), to runSearch, which goes
\* on to page.goto(ADV_URL), or to the startup code, which listens
ensureLoggedIn(t, who, k, ts) ==
  IF MentionsShodan(ts[k].url) /\ ~OnLoginPath(ts[k].url)
  THEN IF who = "search"
       THEN Go(t, "s_goto", k,
               [frame[t] EXCEPT !.ctx = who, !.authEntry = Null, !.authNavs = 0])
       ELSE End(t, "fulfilled", Undef)
  ELSE EnterAuth(t, who, k, ts)

\* the login routine of the program invocation t belongs to
BeginAuth(t, who, k, ts) ==
  IF frame[t].caller = "server"
  THEN ensureLoggedIn(t, who, k, ts)
  ELSE EnterAuth(t, who, k, ts)

\* the startup code of server.js begins: puppeteer.launch is issued (line 157)
ServerBoot ==
  /\ ~exited
  /\ pc[ServerStartup] = "idle"
  /\ Go(ServerStartup, "l_launch", 0, [NoFrame EXCEPT !.ctx = "launch", !.caller = "server"])
  /\ UNCHANGED <<sess, mutex, startOrder, exited, closer>>

\* launch() called by the startup code or by another user of the module
LaunchCall(t) ==
  /\ ~exited
  /\ pc[t] = "idle"
  /\ IF LaunchIsNoop
     THEN End(t, "fulfilled", Undef)
     ELSE Go(t, "l_launch", 0, [NoFrame EXCEPT !.ctx = "launch"])
  /\ UNCHANGED <<sess, mutex, startOrder, exited, closer>>

\* the then-callback of run: the task body starts, or the rejection of the
\* promise it was chained on passes through
MutexThen(t) ==
  /\ ~exited
  /\ pc[t] = "queued"
  /\ PromiseOf(pred[t]).st # "pending"
  /\ IF PromiseOf(pred[t]).st = "rejected"
     THEN /\ EndWith(t, "rejected", PromiseOf(pred[t]).by,
                     Err("passed", PromiseOf(pred[t]).by), <<>>)
          /\ UNCHANGED startOrder
     ELSE /\ startOrder' = Append(startOrder, t)
          /\ IF frame[t].caller = "server"
             THEN IF page = 0
                  THEN End(t, "rejected", Err("TypeError", t))
                  ELSE ensureLoggedIn(t, "search", page, tabs)
             ELSE IF browser = 0 \/ page = 0
             THEN IF LaunchIsNoop
                  THEN IF page = 0
                       THEN End(t, "rejected", Err("TypeError", t))
                       ELSE EnterAuth(t, "search", page, tabs)
                  ELSE Go(t, "l_launch", 0, [frame[t] EXCEPT !.ctx = "launch"])
             ELSE EnterAuth(t, "search", page, tabs)
  /\ UNCHANGED <<sess, mutex, exited, closer>>

\* puppeteer.launch settles
LaunchDone(t, ok) ==
  /\ ~exited
  /\ pc[t] = "l_launch"
  /\ IF ok
     THEN /\ procs' = Append(procs, "live")
          /\ browser' = Len(procs) + 1
          /\ Go(t, "l_newPage", Len(procs) + 1, frame[t])
     ELSE /\ Throw(t)
          /\ UNCHANGED <<browser, procs>>
  /\ UNCHANGED <<page, tabs, mutex, startOrder, exited, closer>>

NewTab(b) == [owner |-> b, open |-> TRUE, url |-> BLANK_URL, dom |-> <<>>, input |-> <<>>]

\* browser.newPage settles
NewPageDone(t, ok) ==
  /\ ~exited
  /\ pc[t] = "l_newPage"
  /\ ok => procs[target[t]] = "live"
  /\ IF ok
     THEN /\ tabs' = Append(tabs, NewTab(target[t]))
          /\ page' = Len(tabs) + 1
          /\ BeginAuth(t, "launch", Len(tabs) + 1, tabs')
     ELSE /\ Throw(t)
          /\ UNCHANGED <<page, tabs>>
  /\ UNCHANGED <<browser, procs, mutex, startOrder, exited, closer>>

\* ------------------------------------------------------ _ensureLoggedIn()
\* _ensureLoggedIn returns to its caller: launch (line 65) returns in turn, to the
\* startup code or to search (line 93), which calls _ensureLoggedIn itself (line 94);
\* search goes on to page.goto(ADV_URL) (line 97)
AuthReturn(t, ts) ==
  IF frame[t].ctx = "launch"
  THEN IF t \in Requests
       THEN EnterAuth(t, "search", page, ts)
       ELSE End(t, "fulfilled", Undef)
  ELSE Go(t, "s_goto", page, [frame[t] EXCEPT !.authEntry = Null, !.authNavs = 0])

\* where a navigation to the login page ends: on it, or redirected to the account
LoginLandings == {LOGIN_URL, ACCOUNT_URL}

Loaded(tab, u, dom) == [tab EXCEPT !.url = u, !.dom = dom, !.input = <<>>]

\* page.goto(LOGIN_URL) settles; then the test of line 71
GotoLoginDone(t, ok, landed) ==
  /\ ~exited
  /\ pc[t] = "a_goto"
  /\ ok => TabLive(target[t])
  /\ IF ok
     THEN /\ tabs' = [tabs EXCEPT ![target[t]] = Loaded(@, landed, <<>>)]
          /\ IF OnLoginPath(tabs'[page].url)
             THEN Go(t, "a_form", page, frame[t])
             ELSE AuthReturn(t, tabs')
     ELSE /\ Throw(t)
          /\ UNCHANGED tabs
  /\ UNCHANGED <<browser, page, procs, mutex, startOrder, exited, closer>>

\* the operations that leave the page where it is, and what is awaited after each:
\* waitForSelector(form), type(username), type(password), keyboard.press(Enter),
\* waitForSelector(#search-query)
AfterStep ==
  [a_form |-> "a_user", a_user |-> "a_pass", a_pass |-> "a_enter",
   a_enter |-> "a_nav", s_input |-> "s_clear"]

\* server.js awaits page.focus(password) between type(password) and press(Enter)
ServerAfterStep ==
  [a_form |-> "a_user", a_user |-> "a_pass", a_pass |-> "a_focus", a_focus |-> "a_enter",
   a_enter |-> "a_nav", s_input |-> "s_clear"]

StepsOf(t) == IF frame[t].caller = "server" THEN ServerAfterStep ELSE AfterStep

StepDone(t, ok) ==
  /\ ~exited
  /\ pc[t] \in DOMAIN StepsOf(t)
  /\ ok => TabLive(target[t])
  /\ IF ok THEN Go(t, StepsOf(t)[pc[t]], page, frame[t]) ELSE Throw(t)
  /\ UNCHANGED <<sess, mutex, startOrder, exited, closer>>

\* page.waitForNavigation after the login form was sent; then the test of line 79
LoginNavDone(t, ok, landed) ==
  /\ ~exited
  /\ pc[t] = "a_nav"
  /\ ok => TabLive(target[t])
  /\ IF ok
     THEN /\ tabs' = [tabs EXCEPT ![target[t]] = Loaded(@, landed, <<>>)]
          /\ IF OnLoginPath(tabs'[page].url)
             THEN Go(t, "a_challenge", page, frame[t])
             ELSE AuthReturn(t, tabs')
     ELSE /\ Throw(t)
          /\ UNCHANGED tabs
  /\ UNCHANGED <<browser, page, procs, mutex, startOrder, exited, closer>>

\* page.waitForFunction(..., {timeout: 0}) settles: the page left the login path, or,
\* as no timeout runs, the wait is rejected because the page is gone
ChallengeDone(t, ok) ==
  /\ ~exited
  /\ pc[t] = "a_challenge"
  /\ ok => TabLive(target[t]) /\ ChallengeCleared(tabs[target[t]].url)
  /\ ~ok => ~TabLive(target[t])
  /\ IF ok THEN AuthReturn(t, tabs) ELSE Throw(t)
  /\ UNCHANGED <<sess, mutex, startOrder, exited, closer>>

\* a person completes the CAPTCHA / 2FA in the browser profile
HumanSolves(k) ==
  /\ ~exited
  /\ TabLive(k)
  /\ OnLoginPath(tabs[k].url)
  /\ \E t \in Threads : pc[t] = "a_challenge" /\ target[t] = k
  /\ tabs' = [tabs EXCEPT ![k].url = ACCOUNT_URL]
  /\ UNCHANGED <<ctl, browser, page, procs, mutex, startOrder, exited, closer>>

\* ----------------------------------------------------------------- search()
\* page.goto(ADV_URL) settles
GotoAdvDone(t, ok) ==
  /\ ~exited
  /\ pc[t] = "s_goto"
  /\ ok => TabLive(target[t])
  /\ IF ok
     THEN /\ tabs' = [tabs EXCEPT ![target[t]] = Loaded(@, ADV_URL, <<>>)]
          /\ Go(t, "s_input", page, frame[t])
     ELSE /\ Throw(t)
          /\ UNCHANGED tabs
  /\ UNCHANGED <<browser, page, procs, mutex, startOrder, exited, closer>>

\* page.$eval('#search-query', el => { el.value = ''; }) settles
ClearDone(t, ok) ==
  /\ ~exited
  /\ pc[t] = "s_clear"
  /\ ok => TabLive(target[t])
  /\ IF ok
     THEN /\ tabs' = [tabs EXCEPT ![target[t]].input = <<>>]
          /\ Go(t, "s_type", page, frame[t])
     ELSE /\ Throw(t)
          /\ UNCHANGED tabs
  /\ UNCHANGED <<browser, page, procs, mutex, startOrder, exited, closer>>

\* page.type('#search-query', query) settles
TypeDone(t, ok) ==
  /\ ~exited
  /\ pc[t] = "s_type"
  /\ ok => TabLive(target[t])
  /\ IF ok
     THEN /\ tabs' = [tabs EXCEPT ![target[t]].input = @ \o frame[t].query]
          /\ Go(t, "s_submit", page, frame[t])
     ELSE /\ Throw(t)
          /\ UNCHANGED tabs
  /\ UNCHANGED <<browser, page, procs, mutex, startOrder, exited, closer>>

\* Promise.all([click(submit), waitForNavigation]) settles; scrapeCurrent begins
SubmitDone(t, ok, dom) ==
  /\ ~exited
  /\ pc[t] = "s_submit"
  /\ ok => TabLive(target[t])
  /\ IF ok
     THEN /\ tabs' = [tabs EXCEPT ![target[t]] = Loaded(@, ResultsUrl(@.input), dom)]
          /\ Go(t, "s_cards", page, frame[t])
     ELSE /\ Throw(t)
          /\ UNCHANGED tabs
  /\ UNCHANGED <<browser, page, procs, mutex, startOrder, exited, closer>>

\* page.waitForSelector('div.result, .search-result, .banner') settles
CardsDone(t, ok) ==
  /\ ~exited
  /\ pc[t] = "s_cards"
  /\ ok => TabLive(target[t]) /\ HasCards(tabs[target[t]].dom)
  /\ IF ok THEN Go(t, "s_eval", page, frame[t]) ELSE Throw(t)
  /\ UNCHANGED <<sess, mutex, startOrder, exited, closer>>

\* the value runSearch() of server.js resolves with (line 132)
RunSearchResult(q, results) == [query |-> q, count |-> Len(results), results |-> results]

\* the value search() resolves with (line 148)
Response(q, ptf, lists) ==
  [query |-> q, pages |-> ptf, counts |-> Counts(lists),
   count |-> Len(Flat(lists)), results |-> Flat(lists)]

\* the loop stops one page early
MorePagesBelow(k, ptf) == NumLess(Whole(k), ptf)

\* p <= pagesToFetch
MorePages(k, ptf) == NumLeq(Whole(k), ptf)

\* page.evaluate settles: byPage.push, then lines 138-148
EvalDone(t, ok) ==
  /\ ~exited
  /\ pc[t] = "s_eval"
  /\ ok => TabLive(target[t])
  /\ IF ok
     THEN LET fr == frame[t]
              lists == Append(fr.byPage, Scrape(tabs[target[t]].dom))
              srv == Append(fr.served, tabs[target[t]].dom)
              first == fr.byPage = <<>>
              k == IF first THEN 2 ELSE fr.p + 1
              base == IF first THEN tabs[page].url ELSE fr.url
              loop == (first => NumLess(Whole(1), fr.pagesToFetch))
                        /\ MorePages(k, fr.pagesToFetch)
          IN  IF fr.caller = "server"
              THEN EndWith(t, "fulfilled", t,
                           RunSearchResult(fr.query, Scrape(tabs[target[t]].dom)), srv)
              ELSE IF loop
              THEN Go(t, "s_gotoPage", page,
                      [fr EXCEPT !.byPage = lists, !.served = srv, !.p = k,
                                 !.url = SetPageParam(base, k)])
              ELSE EndWith(t, "fulfilled", t,
                           Response(fr.query, fr.pagesToFetch, lists), srv)
     ELSE Throw(t)
  /\ UNCHANGED <<sess, mutex, startOrder, exited, closer>>

\* page.goto(url with page=p) settles; scrapeCurrent begins
PageGotoDone(t, ok, dom) ==
  /\ ~exited
  /\ pc[t] = "s_gotoPage"
  /\ ok => TabLive(target[t])
  /\ IF ok
     THEN /\ tabs' = [tabs EXCEPT ![target[t]] = Loaded(@, frame[t].url, dom)]
          /\ Go(t, "s_cards", page, frame[t])
     ELSE /\ Throw(t)
          /\ UNCHANGED tabs
  /\ UNCHANGED <<browser, page, procs, mutex, startOrder, exited, closer>>

\* ------------------------------------------------------------------ close()
\* a rejection of the awaited close leaves the block
CaughtNever(ok) == ok

\* try { ... } catch {}: whatever the awaited close did, the block ends normally
Caught(ok) == TRUE

\* close() rejects
CloseThrows ==
  /\ closer' = [pc |-> "threw", target |-> 0, exit |-> closer.exit]
  /\ UNCHANGED exited

\* try { if (this.browser) await this.browser.close(); } catch {}  and the return;
\* the shutdown handler then calls process.exit(0)
CloseBrowserPart(exit) ==
  IF browser # 0
  THEN /\ closer' = [pc |-> "browser", target |-> browser, exit |-> exit]
       /\ UNCHANGED exited
  ELSE /\ closer' = [pc |-> "done", target |-> 0, exit |-> exit]
       /\ exited' = exit

\* close() is called
CloseCall(exit) ==
  /\ ~exited
  /\ closer.pc = "idle"
  /\ IF page # 0 /\ tabs[page].open
     THEN /\ closer' = [pc |-> "page", target |-> page, exit |-> exit]
          /\ UNCHANGED exited
     ELSE CloseBrowserPart(exit)
  /\ UNCHANGED <<ctl, sess, mutex, startOrder>>

\* SIGINT / SIGTERM once the handlers are registered (part_001 lines 34-40; the
\* shutdown of server.js, lines 180-187, is the same two blocks and process.exit)
Signal == listening /\ CloseCall(TRUE)

\* page.close() settles; a rejection is swallowed
ClosePageDone(ok) ==
  /\ ~exited
  /\ closer.pc = "page"
  /\ ok => TabLive(closer.target)
  /\ tabs' = IF ok THEN [tabs EXCEPT ![closer.target].open = FALSE] ELSE tabs
  /\ IF Caught(ok) THEN CloseBrowserPart(closer.exit) ELSE CloseThrows
  /\ UNCHANGED <<ctl, browser, page, procs, mutex, startOrder>>

\* browser.close() settles; a rejection is swallowed
CloseBrowserDone(ok) ==
  /\ ~exited
  /\ closer.pc = "browser"
  /\ ok => procs[closer.target] = "live"
  /\ procs' = IF ok THEN [procs EXCEPT ![closer.target] = "closed"] ELSE procs
  /\ tabs' = IF ok
             THEN [k \in 1..Len(tabs) |->
                     IF tabs[k].owner = closer.target
                     THEN [tabs[k] EXCEPT !.open = FALSE] ELSE tabs[k]]
             ELSE tabs
  /\ IF Caught(ok)
     THEN /\ closer' = [pc |-> "done", target |-> 0, exit |-> closer.exit]
          /\ exited' = closer.exit
     ELSE CloseThrows
  /\ UNCHANGED <<ctl, browser, page, mutex, startOrder>>

\* ----------------------------------------------------------- specifications
\* the operations in flight settle; the site serves page contents from doms
Operations(doms) ==
  \/ \E t \in Threads, ok \in BOOLEAN : LaunchDone(t, ok)
  \/ \E t \in Threads, ok \in BOOLEAN : NewPageDone(t, ok)
  \/ \E t \in Threads, ok \in BOOLEAN, u \in LoginLandings : GotoLoginDone(t, ok, u)
  \/ \E t \in Threads, ok \in BOOLEAN : StepDone(t, ok)
  \/ \E t \in Threads, ok \in BOOLEAN, u \in LoginLandings : LoginNavDone(t, ok, u)
  \/ \E t \in Threads, ok \in BOOLEAN : ChallengeDone(t, ok)
  \/ \E t \in Requests, ok \in BOOLEAN : GotoAdvDone(t, ok)
  \/ \E t \in Requests, ok \in BOOLEAN : ClearDone(t, ok)
  \/ \E t \in Requests, ok \in BOOLEAN : TypeDone(t, ok)
  \/ \E t \in Requests, ok \in BOOLEAN, dom \in doms : SubmitDone(t, ok, dom)
  \/ \E t \in Requests, ok \in BOOLEAN : CardsDone(t, ok)
  \/ \E t \in Requests, ok \in BOOLEAN : EvalDone(t, ok)
  \/ \E t \in Requests, ok \in BOOLEAN, dom \in doms : PageGotoDone(t, ok, dom)

\* the event loop runs the then-callbacks of settled promises
Callbacks == \E t \in Requests : MutexThen(t)

\* a person completes a pending challenge
Solving == \E k \in 1..Len(tabs) : HumanSolves(k)

\* the operations of close() settle
Closing ==
  \/ \E ok \in BOOLEAN : ClosePageDone(ok)
  \/ \E ok \in BOOLEAN : CloseBrowserDone(ok)

\* everything that goes on once calls were made
Settles(doms) == Callbacks \/ Operations(doms) \/ Solving \/ Closing

NoQs == [q |-> Undef, pages |-> Undef]
FewBodies == [query : {Str(Q), Str(<<" ">>)}, pages : {Undef, Whole(1)}]

\* the service as deployed: part_001 starts the browser, listens, serves requests
Next ==
  \/ LaunchCall(Startup)
  \/ \E t \in Requests, body \in FewBodies : PostSearch(t, body, NoQs)
  \/ Signal
  \/ Settles(FewPages)

Spec == Init /\ [][Next]_vars

\* one request at a time, with every kind of input and page content
NextData ==
  \/ LaunchCall(Startup)
  \/ \E body \in [query : RawQueries, pages : RawPages],
        qs \in [q : {Undef, Str(Q)}, pages : {Undef, Str(<<"2">>)}] :
          PostSearch(1, body, qs)
  \/ Signal
  \/ Settles(ManyPages)

SpecData == Init /\ [][NextData]_vars

\* the exported ShodanBrowser object under callers that do not wait for one another:
\* one calls launch(), one calls search(), one calls close()
NextApi ==
  \/ LaunchCall(Launcher)
  \/ \E pages \in {Undef, Whole(1)} : SearchCall(1, Q, pages)
  \/ CloseCall(FALSE)
  \/ Settles(FewPages)

SpecApi == Init /\ [][NextApi]_vars

\* the query values a request may carry in its body and in its query string
HttpBodies == [query : {Undef, Str(<<>>), Str(<<" ">>), Str(Q)}, pages : {Undef}]
HttpQs == [q : {Undef, Str(<<" ">>), Str(Q)}, pages : {Undef}]

\* either HTTP surface, one per behaviour: part_001 over shodanBrowser.js, or server.js
NextHttp ==
  \/ pc[ServerStartup] = "idle" /\ LaunchCall(Startup)
  \/ \E t \in Requests, body \in HttpBodies, qs \in HttpQs :
       pc[ServerStartup] = "idle" /\ PostSearch(t, body, qs)
  \/ pc[ServerStartup] = "idle" /\ Health
  \/ pc[Startup] = "idle" /\ ServerBoot
  \/ \E t \in Requests, body \in HttpBodies, qs \in HttpQs :
       pc[Startup] = "idle" /\ ServerPostSearch(t, body, qs)
  \/ pc[Startup] = "idle" /\ ServerHealth
  \/ Signal
  \/ Settles(FewPages)

SpecHttp == Init /\ [][NextHttp]_vars

\* part_001 while it is not shut down, with what the claim of liveness assumes: the
\* event loop runs every callback that is ready, every operation in flight settles
\* (done or failed), and a pending challenge is solved
LiveBodies == [query : {Str(Q)}, pages : {Undef, Whole(1)}]

NextLive ==
  \/ LaunchCall(Startup)
  \/ \E t \in Requests, body \in LiveBodies : PostSearch(t, body, NoQs)
  \/ Callbacks
  \/ Operations(FewPages)
  \/ Solving

Fairness ==
  /\ WF_vars(Callbacks)
  /\ WF_vars(Operations(FewPages))
  /\ WF_vars(Solving)

SpecLive == Init /\ [][NextLive]_vars /\ Fairness

\* ------------------------------------------------------------- properties
Settled == {"resolved", "rejected"}
Range(f) == {f[i] : i \in DOMAIN f}
IsPrefix(a, b) == Len(a) <= Len(b) /\ \A i \in 1..Len(a) : a[i] = b[i]
\* the tasks run was called with before it was called with t
Before(t) == {submitOrder[i] : i \in {j \in DOMAIN submitOrder : \E k \in DOMAIN submitOrder : j < k /\ submitOrder[k] = t}}

\* C1: a task submitted to Mutex.run begins only after every task submitted before it
\* has settled (resolved or rejected), and no two submitted tasks execute at the same
\* time.
C1_Serialized ==
  /\ \A t \in Range(submitOrder) :
       pc[t] # "queued" => \A u \in Before(t) : pc[u] \in Settled
  /\ \A t, u \in Requests : pc[t] \in Executing /\ pc[u] \in Executing => t = u

\* a task waits in the queue while the task submitted before it executes
C1_Witness == pc[1] \in Executing /\ pc[2] = "queued" /\ pred[2] = 1

\* C2: the operations two searches issue on the shared page never interleave: a
\* search issues its first operation only when every search that issued one before
\* has finished or failed, and searches use the page in the order they were submitted.
C2_NoInterleaving ==
  /\ \A i, j \in DOMAIN opLog : i < j => opLog[i] \in Before(opLog[j])
  /\ \A i \in DOMAIN opLog : i < Len(opLog) => pc[opLog[i]] \in Settled

\* the second of two searches is extracting after the first one used the page
C2_Witness == opLog = <<1, 2>> /\ pc[2] = "s_eval" /\ pc[1] = "resolved"

\* C3: tasks start and finish in the order run was called (FIFO), and a task
\* finishes before the next one starts, whatever its outcome.
C3_Fifo ==
  /\ IsPrefix(startOrder, submitOrder)
  /\ IsPrefix(finishOrder, submitOrder)
  /\ Len(startOrder) <= Len(finishOrder) + 1

\* a task that failed was followed, in order, by the task submitted after it
C3_Witness == finishOrder = <<1, 2>> /\ pc[1] = "rejected" /\ pc[2] = "resolved"

\* C4: a rejected task does not poison the lock: every settled task was started and
\* settled with its own outcome, and each caller is handed its own task's outcome.
C4_NoPoison ==
  /\ \A t \in Requests :
       next[t].st # "pending" => next[t].by = t /\ t \in Range(startOrder)
  /\ lastResponse.req # 0 => lastResponse.from = lastResponse.req

\* after a task was rejected, the next task ran and its caller got its result
C4_Witness ==
  /\ pc[1] = "rejected"
  /\ pc[2] = "resolved"
  /\ lastResponse.req = 2
  /\ lastResponse.status = 200

\* C5: at most one browser process and one page are live, and every page operation
\* in flight acts on the page this.page names, after any interleaving of launch(),
\* search() and close() calls.
C5_OneSession ==
  /\ Cardinality({b \in DOMAIN procs : procs[b] = "live"}) <= 1
  /\ Cardinality({k \in DOMAIN tabs : TabLive(k)}) <= 1
  /\ \A t \in Threads : pc[t] \in PageOps => target[t] = page

\* C6: launch() called while this.browser is set returns at once: it starts no
\* browser process, creates no page and issues no operation, whether it is called
\* directly or from search().
C6_LaunchIdempotent ==
  [][/\ \A t \in {Startup, Launcher} :
          pc[t] = "idle" /\ pc'[t] # "idle" /\ browser # 0
            => pc'[t] = "resolved" /\ UNCHANGED sess
     /\ \A t \in Requests :
          pc[t] = "queued" /\ pc'[t] # "queued" /\ browser # 0
            => pc'[t] # "l_launch" /\ UNCHANGED sess]_vars

\* the direct launch() returned although the only browser process is the one the
\* search started, which is still creating its page
C6_Witness ==
  /\ pc[Launcher] = "resolved"
  /\ Len(procs) = 1
  /\ pc[1] = "l_newPage"
  /\ target[1] = 1

\* C7: when _ensureLoggedIn begins on a page that is on the site and not on the
\* login path, it issues no navigation.
C7_NoNavigationWhenLoggedIn ==
  \A t \in Threads :
    pc[t] \in AuthOps /\ frame[t].authEntry # Null /\ ChallengeCleared(frame[t].authEntry)
      => frame[t].authNavs = 0

\* the `pages` value is <= 0, not a number, or not an integer
OddPages(v) == v.t # "num" \/ v.n <= 0 \/ v.n % v.d # 0

\* C8: for every `pages` input that is <= 0, non-numeric or not an integer, the
\* page count search() works with is an integer >= 1, and a successful search
\* fetches that many pages.
C8_PagesCoerced ==
  /\ \A t \in Requests :
       frame[t].caller # "none" /\ OddPages(frame[t].asked)
         => IsInteger(frame[t].pagesToFetch) /\ frame[t].pagesToFetch.n >= 1
  /\ lastResponse.status = 200 /\ OddPages(lastResponse.asked)
       => /\ IsInteger(lastResponse.body.pages)
          /\ lastResponse.body.pages.n >= 1
          /\ Len(lastResponse.served) = lastResponse.body.pages.n

\* a DOM element with text other than white space
HasText(el) == el # Null /\ \E i \in 1..Len(el.text) : el.text[i] \notin WhiteSpace
\* the card shows a title (its title link, else its first link) or a banner
CardHasText(c) == HasText(IF c.title # Null THEN c.title ELSE c.anchor) \/ HasText(c.pre)
\* the card has no link at all and no banner block
CardLacksBoth(c) == c.title = Null /\ c.anchor = Null /\ c.pre = Null
NumWhere(cards, Test(_)) == Cardinality({i \in 1..Len(cards) : Test(cards[i])})

RECURSIVE Sum(_)
Sum(f) == IF f = <<>> THEN 0 ELSE Head(f) + Sum(Tail(f))

\* C9: a successful search asked for N >= 1 pages made exactly N extraction
\* passes and answers pages = N, counts of length N whose k-th entry is the number
\* of cards of page k that show a title or a banner, and count equal to the sum of
\* counts and to the length of results.
C9_Pagination ==
  LET r == lastResponse
      b == r.body
  IN  r.status = 200 /\ ~OddPages(r.asked) =>
        /\ b.pages = r.asked
        /\ Len(r.served) = r.asked.n
        /\ Len(b.counts) = r.asked.n
        /\ \A k \in 1..Len(b.counts) :
             b.counts[k] = NumWhere(SelectCards(r.served[k]), CardHasText)
        /\ b.count = Sum(b.counts)
        /\ b.count = Len(b.results)

\* a search over the largest page count, with a page that kept two of three cards
C9_Witness ==
  /\ lastResponse.status = 200
  /\ lastResponse.asked = Whole(MaxPages)
  /\ Len(lastResponse.body.counts) = MaxPages
  /\ lastResponse.served[MaxPages] = FixturePage
  /\ lastResponse.body.counts[MaxPages] = 2

\* the records of one page keep every card that shows a title or a banner, hold no
\* record with title and banner both null, and drop the cards that lack both
PageFiltered(dom, recs) ==
  /\ \A i \in 1..Len(recs) : ~(recs[i].title = Null /\ recs[i].banner = Null)
  /\ \A i \in 1..Len(SelectCards(dom)) :
       CardHasText(SelectCards(dom)[i]) => CardRecord(SelectCards(dom)[i]) \in Range(recs)
  /\ Len(recs) >= NumWhere(SelectCards(dom), CardHasText)
  /\ Len(recs) + NumWhere(SelectCards(dom), CardLacksBoth) <= Len(SelectCards(dom))

\* the records of page k in results, whose pages have the lengths counts
Slice(results, counts, k) ==
  SubSeq(results, Sum(SubSeq(counts, 1, k - 1)) + 1, Sum(SubSeq(counts, 1, k)))

\* C10: no record of a search has title and banner both null: from every page the
\* extractor drops each card that lacks both and keeps each card that shows a
\* non-empty title or a non-empty banner.
C10_NoEmptyRecords ==
  /\ \A t \in Requests : \A k \in 1..Len(frame[t].byPage) :
       PageFiltered(frame[t].served[k], frame[t].byPage[k])
  /\ lastResponse.status = 200 =>
       /\ Len(lastResponse.body.counts) = Len(lastResponse.served)
       /\ \A k \in 1..Len(lastResponse.served) :
            PageFiltered(lastResponse.served[k],
                         Slice(lastResponse.body.results, lastResponse.body.counts, k))

\* the fixture of two well-formed cards and one empty card answered two records, and
\* a page with a banner-only card answered one
C10_Witness ==
  /\ lastResponse.status = 200
  /\ lastResponse.served = <<FixturePage, <<BlankCard, BannerCard>>>>
  /\ lastResponse.body.counts = <<2, 1>>

\* the text is empty or white space only
BlankText(s) == \A i \in 1..Len(s) : s[i] \in WhiteSpace
\* the request carries this value as a query
Given(v) == v.t = "str" /\ v.s # <<>>
\* the query of a request, the body's before the query string's, is missing, empty or
\* white space only
QueryBlank(snt) ==
  IF Given(snt[1]) THEN BlankText(snt[1].s)
  ELSE IF Given(snt[2]) THEN BlankText(snt[2].s)
  ELSE TRUE

\* C11: a POST /search whose query (from the body or the q parameter) is missing,
\* empty or white space only is answered 400, on either surface, and the handler
\* changes neither the page nor the lock nor anything of a search; a request that
\* does reach the lock carries a query with text.
C11_BlankRefused ==
  /\ [](\A t \in Requests : frame[t].caller # "none" => ~BlankText(frame[t].query))
  /\ [](lastResponse.status = 400 =>
          /\ QueryBlank(lastResponse.sent)
          /\ DOMAIN lastResponse.body = {"error"}
          /\ pc[lastResponse.req] = "refused")
  /\ [](\A t \in Requests : pc[t] = "refused" =>
          t \notin Range(submitOrder) /\ t \notin Range(startOrder) /\ frame[t] = NoFrame)
  /\ [][\A t \in Requests : pc[t] = "idle" /\ pc'[t] # "idle" =>
          \/ /\ pc'[t] = "refused"
             /\ lastResponse'.status = 400 /\ lastResponse'.req = t
             /\ UNCHANGED <<sess, mutex, frame, target, next, startOrder, finishOrder, opLog>>
          \/ /\ pc'[t] = "queued"
             /\ ~BlankText(frame'[t].query)]_vars

\* server.js refused a request whose only query is white space in the query string,
\* while an earlier search was using the page
C11_Witness ==
  /\ pc[ServerStartup] # "idle"
  /\ lastResponse.status = 400
  /\ lastResponse.req = 2
  /\ lastResponse.sent = <<Undef, Str(<<" ">>)>>
  /\ pc[1] \in SearchOps

\* C12: a search of which any step fails (login, navigation, selector wait or
\* extraction, on any page) fails as a whole: the facade answers 500 with error and
\* detail and none of the pages already extracted, a 200 answer carries every page
\* asked for, the process keeps running, and the failed search is never started again.
C12_FailsWhole ==
  /\ [](lastResponse.status = 500 =>
          /\ DOMAIN lastResponse.body = {"error", "detail"}
          /\ lastResponse.body.error = "Search failed"
          /\ lastResponse.body.detail.t = "error"
          /\ pc[lastResponse.req] = "rejected")
  /\ [](lastResponse.status = 200 =>
          /\ IsInteger(lastResponse.body.pages)
          /\ Len(lastResponse.body.counts) = lastResponse.body.pages.n
          /\ Len(lastResponse.served) = lastResponse.body.pages.n)
  /\ [](\A i, j \in DOMAIN startOrder : startOrder[i] = startOrder[j] => i = j)
  /\ [][\A t \in Requests :
          /\ pc[t] \in Executing /\ pc'[t] \notin Executing =>
               /\ lastResponse'.req = t
               /\ \/ pc'[t] = "resolved" /\ lastResponse'.status = 200
                  \/ pc'[t] = "rejected" /\ lastResponse'.status = 500
               /\ ~exited' /\ listening'
          /\ pc[t] = "rejected" => pc'[t] = "rejected"]_vars

\* the second page failed after the first was extracted: the answer is 500 and the
\* next request waits for the lock
C12_Witness ==
  /\ lastResponse.status = 500
  /\ lastResponse.req = 1
  /\ lastResponse.served = <<FixturePage>>
  /\ pc[2] = "queued"
  /\ ~exited

\* search t holds the lock: its body began and every task submitted before it settled
HoldsLock(t) == t \in Range(startOrder) /\ \A u \in Before(t) : pc[u] \in Settled

\* C13: in every search, the first as well as the later ones, the login check-and-
\* repair runs while the search holds the lock and is over, with the page off the
\* login path, before the search navigates to the advanced-search URL.
C13_AuthBeforeSearch ==
  /\ [](\A t \in Requests : pc[t] \in AuthOps \cup SearchOps => HoldsLock(t))
  /\ [][\A t \in Requests : pc[t] # "s_goto" /\ pc'[t] = "s_goto" =>
          /\ HoldsLock(t)'
          /\ frame'[t].ctx = "search"
          /\ ~OnLoginPath(tabs'[target'[t]].url)
          /\ \/ pc[t] \in {"a_goto", "a_nav", "a_challenge"} /\ frame[t].ctx = "search"
             \/ /\ pc[t] = "queued"
                /\ frame[t].caller = "server"
                /\ ChallengeCleared(tabs[page].url)]_vars

\* the second search went through the login routine again before it navigated
C13_Witness ==
  /\ pc[1] = "resolved"
  /\ pc[2] = "a_form"
  /\ frame[2].ctx = "search"
  /\ frame[2].caller = "http"

\* while a search waits for a manual challenge, the searches submitted after it stay
\* queued, and the wait can end as soon as the page is off the login path
ChallengeHolds ==
  /\ \A t, u \in Requests : pc[t] = "a_challenge" /\ t \in Before(u) => pc[u] = "queued"
  /\ \A t \in Threads :
       pc[t] = "a_challenge" /\ ~exited /\ TabLive(target[t])
         /\ ~OnLoginPath(tabs[target[t]].url)
         => ENABLED ChallengeDone(t, TRUE)

\* the wait ends only with the page off the login path, and then the caller goes on
\* (or, if orClosed, with the page closed under it, which rejects the wait)
ChallengeEnds(orClosed) ==
  \A t \in Threads : pc[t] = "a_challenge" /\ pc'[t] # "a_challenge" =>
    \/ /\ ~OnLoginPath(tabs[target[t]].url)
       /\ pc'[t] \in {"a_goto", "s_goto", "resolved"}
    \/ /\ orClosed
       /\ ~TabLive(target[t])
       /\ pc'[t] = "rejected"

\* C14 as stated: still on the login path after the credentials were sent, the login
\* routine waits with no timeout; the search keeps the lock, no later search begins,
\* and as long as the page stays on the login path neither that search nor a later
\* one returns; once the page leaves the login path the search proceeds.
C14_ChallengeNeverReturns == []ChallengeHolds /\ [][ChallengeEnds(FALSE)]_vars

\* C14, amended: as above as long as the page stays open; when the page is closed
\* under the wait (close() on shutdown) the wait is rejected and the search fails.
C14_ChallengeWaits == []ChallengeHolds /\ [][ChallengeEnds(TRUE)]_vars

\* a search waits for the challenge on the login page and the next one is queued
C14_Witness ==
  /\ pc[1] = "a_challenge"
  /\ frame[1].ctx = "search"
  /\ OnLoginPath(tabs[page].url)
  /\ TabLive(page)
  /\ pc[2] = "queued"

\* C15: a launch() that fails at startup, at the browser start, the page creation or
\* the login, rejects to the startup code, which goes on to listen; the next search
\* then takes up the steps that are missing, under the lock: it starts the browser
\* when there is none, creates the page when there is none, and logs in.
C15_StartupFailureRetried ==
  /\ [](pc[Startup] = "rejected" => listening)
  /\ [](\A t \in Requests : pc[t] \in {"l_launch", "l_newPage"} => HoldsLock(t))
  /\ [][\A t \in Requests :
          pc[Startup] = "rejected" /\ pc[t] = "queued" /\ pc'[t] # "queued" =>
            /\ browser = 0 => pc'[t] = "l_launch"
            /\ browser # 0 /\ page = 0 => pc'[t] = "l_newPage"
            /\ browser # 0 /\ page # 0 => pc'[t] = "a_goto"]_vars

\* an answer to GET /health: no request of the model stands behind it
IsHealthAnswer(r) == r.status = 200 /\ r.req = 0
\* an answer to a POST /search that succeeded
IsSearchAnswer(r) == r.status = 200 /\ r.req \in Requests

\* C16: on both HTTP surfaces a successful POST /search answers 200 with a record of
\* the fields query, pages, counts, count and results, and GET /health answers with
\* ok = true, a boolean loggedIn and a timestamp.
C16_SameContract ==
  /\ IsSearchAnswer(lastResponse) =>
       DOMAIN lastResponse.body = {"query", "pages", "counts", "count", "results"}
  /\ IsHealthAnswer(lastResponse) =>
       /\ DOMAIN lastResponse.body = {"ok", "loggedIn", "ts"}
       /\ lastResponse.body.ok = TRUE
       /\ lastResponse.body.loggedIn \in BOOLEAN
       /\ lastResponse.body.ts.t = "str"

\* what either surface does answer: part_001 gives the five fields and a health
\* record without loggedIn; server.js gives query, count and results and a health
\* record with loggedIn
SurfaceAnswers ==
  LET r == lastResponse
      server == pc[ServerStartup] # "idle"
  IN  /\ IsSearchAnswer(r) =>
           DOMAIN r.body = IF server THEN {"query", "count", "results"}
                           ELSE {"query", "pages", "counts", "count", "results"}
      /\ IsHealthAnswer(r) =>
           /\ DOMAIN r.body = IF server THEN {"ok", "loggedIn", "ts"} ELSE {"ok", "ts"}
           /\ r.body.ok = TRUE

\* the session is live: this.page names an open page
SessionLive == page # 0 /\ tabs[page].open

\* C17: close() never rejects, whatever the state it is called in (nothing launched,
\* a launch that failed or is under way, a live session) and whatever page.close()
\* and browser.close() do: it tries the page when one is open, then the browser when
\* one was started, each once and in that order, and returns.
C17_CloseNeverFails ==
  /\ [](closer.pc \in {"idle", "page", "browser", "done"})
  /\ [][closer.pc = "idle" /\ closer' # closer =>
          IF SessionLive THEN closer'.pc = "page" /\ closer'.target = page
          ELSE IF browser # 0 THEN closer'.pc = "browser" /\ closer'.target = browser
          ELSE closer'.pc = "done"]_vars
  /\ [][closer.pc = "page" /\ closer' # closer =>
          IF browser # 0 THEN closer'.pc = "browser" /\ closer'.target = browser
          ELSE closer'.pc = "done"]_vars
  /\ [][closer.pc = "browser" /\ closer' # closer => closer'.pc = "done"]_vars
  /\ [][closer.pc = "done" => closer' = closer]_vars
  /\ [][\A b \in DOMAIN procs : procs[b] = "live" /\ procs'[b] = "closed" =>
          closer.pc = "browser" /\ closer.target = b]_vars

\* page.close() and browser.close() both threw, and close() returned with the
\* session still live
C17_Witness ==
  /\ closer.pc = "done"
  /\ SessionLive
  /\ TabLive(page)

\* the results URL of query q with its page parameter set to k
PageUrl(q, k) == [host |-> "www.shodan.io", path |-> "/search", query |-> q, page |-> k]

\* C18: after page 1 is extracted the search navigates to pages 2, 3, ..., N in
\* increasing order, each once, each URL being the page-1 results URL with its page
\* parameter set to the page number, and extracts each page before it navigates to
\* the next; results is the concatenation of the pages' records in page order.
C18_PagesInOrder ==
  /\ [](\A t \in Requests :
          /\ pc[t] = "s_gotoPage" =>
               /\ frame[t].p = Len(frame[t].byPage) + 1
               /\ frame[t].p >= 2
               /\ NumLeq(Whole(frame[t].p), frame[t].pagesToFetch)
               /\ frame[t].url = PageUrl(frame[t].query, frame[t].p)
          /\ pc[t] \in {"s_cards", "s_eval"} =>
               /\ Len(frame[t].served) = Len(frame[t].byPage)
               /\ tabs[target[t]].url =
                    IF frame[t].byPage = <<>> THEN PageUrl(frame[t].query, 0)
                    ELSE PageUrl(frame[t].query, Len(frame[t].byPage) + 1))
  /\ [](IsSearchAnswer(lastResponse) =>
          /\ Len(lastResponse.body.counts) = Len(lastResponse.served)
          /\ Len(lastResponse.body.results) = Sum(lastResponse.body.counts)
          /\ \A k \in 1..Len(lastResponse.served) :
               Slice(lastResponse.body.results, lastResponse.body.counts, k)
                 = Scrape(lastResponse.served[k]))
  /\ [][\A t \in Requests :
          /\ pc[t] # "s_gotoPage" /\ pc'[t] = "s_gotoPage" =>
               /\ pc[t] = "s_eval"
               /\ Len(frame'[t].byPage) = Len(frame[t].byPage) + 1
               /\ frame'[t].p = IF frame[t].byPage = <<>> THEN 2 ELSE frame[t].p + 1
          /\ pc[t] = "s_gotoPage" /\ pc'[t] \notin {"s_gotoPage", "rejected"} =>
               /\ pc'[t] = "s_cards"
               /\ tabs'[target[t]].url = frame[t].url
               /\ frame'[t] = frame[t]]_vars

\* a search over the largest page count ended on the URL of the last page, with the
\* records of the first page first and the record of the last page last
C18_Witness ==
  /\ IsSearchAnswer(lastResponse)
  /\ Len(lastResponse.served) = MaxPages
  /\ tabs[page].url = PageUrl(Q, MaxPages)
  /\ lastResponse.served[1] = FixturePage
  /\ lastResponse.served[MaxPages] = <<LinkCard>>
  /\ lastResponse.body.results =
       <<CardRecord(GoodCard), CardRecord(GoodCard)>>
         \o Flat([k \in 1..(MaxPages - 2) |-> Scrape(lastResponse.served[k + 1])])
         \o <<CardRecord(LinkCard)>>

\* C19: when every operation in flight settles and every challenge is solved, every
\* search submitted to search() starts and is answered, with a result or an error,
\* however many searches are queued.
C19_LockLive ==
  \A t \in Requests :
    (pc[t] = "queued") ~> (t \in Range(startOrder) /\ pc[t] \in Settled)

\* every other search is queued behind one that waits for a manual challenge
C19_Witness ==
  /\ pc[1] = "a_challenge"
  /\ OnLoginPath(tabs[page].url)
  /\ \A t \in Requests \ {1} : pc[t] = "queued"
  /\ Len(submitOrder) = NumRequests

StartupCodes == {Startup, ServerStartup}

\* C20: the startup launch and login run outside the lock and never together with a
\* search: while the startup code is launching or logging in, the server does not
\* listen, no request has been taken and nothing has been submitted to the lock; the
\* server listens only once the startup attempt has ended, in success or in failure.
C20_ListenAfterStartup ==
  /\ \A s \in StartupCodes : pc[s] \in Executing =>
       /\ ~listening
       /\ mutexP = 0 /\ submitOrder = <<>>
       /\ \A t \in Requests : pc[t] = "idle"
       /\ lastResponse = NoResponse
  /\ listening => \E s \in StartupCodes : pc[s] \in Settled
  /\ \A t \in Requests : pc[t] # "idle" => \E s \in StartupCodes : pc[s] \in Settled
  /\ \A t \in Requests, s \in StartupCodes : ~(pc[t] \in PageOps /\ pc[s] \in PageOps)

\* the startup login of server.js failed, the server listens, and a search is
\* logging in on the shared page
C20_Witness ==
  /\ pc[ServerStartup] = "rejected"
  /\ listening
  /\ page # 0
  /\ pc[1] \in AuthOps
  /\ target[1] = page

====
